---- MODULE Spec2Model ----
(***************************************************************************)
(* The real-time session relay of conduit-service:                         *)
(*   - routers/video_router.py: VideoConnectionManager, the signaling      *)
(*     websocket endpoint and the HTTP leave / end endpoints;              *)
(*   - routers/messaging_router.py: ConnectionManager and the chat         *)
(*     websocket endpoint.                                                 *)
(* The relay runs on one asyncio event loop: a handler runs without        *)
(* interruption from one await that suspends to the next, so every action  *)
(* below is one such run.  The awaits on db.* never suspend (the database  *)
(* wrappers are coroutines around a synchronous client); the awaits on     *)
(* websocket.send_text may.                                                *)
(***************************************************************************)
EXTENDS Integers, Sequences, FiniteSets, TLC

Users == {"a", "b", "c"}
Calls == {"call1", "call2"}

\* signaling websockets opened during a run
MaxSock == 3
Socks == 1 .. MaxSock

NoUser == ""
NoCall == ""

\* rows of the video_calls table: call1 was created by "a", call2 has no row
VideoCallRecords == [c \in {"call1"} |-> [creator_id |-> "a"]]

(***************************************************************************)
(* Python containers.  A dict is its entry array in insertion order: a     *)
(* deleted key leaves a dummy entry behind, a new key is appended, an      *)
(* existing key is overwritten in place.  (The entry array is compacted    *)
(* only when more than five entries have been appended, which needs more   *)
(* connects than the model makes.)                                         *)
(***************************************************************************)
Dummy == [user |-> NoUser, ws |-> 0]
Live(d) == {i \in DOMAIN d : d[i].user # NoUser}
DictKeys(d) == {d[i].user : i \in Live(d)}
DictUsed(d) == Cardinality(Live(d))
DictIndex(d, u) == CHOOSE i \in Live(d) : d[i].user = u
DictGet(d, u) == d[DictIndex(d, u)].ws
DictSet(d, u, w) ==
    IF u \in DictKeys(d)
    THEN [d EXCEPT ![DictIndex(d, u)] = [user |-> u, ws |-> w]]
    ELSE Append(d, [user |-> u, ws |-> w])
DictDel(d, u) == [d EXCEPT ![DictIndex(d, u)] = Dummy]

Range(l) == {l[i] : i \in DOMAIN l}
\* list.remove(x): the first occurrence
ListRemove(l, x) ==
    LET k == CHOOSE i \in DOMAIN l : l[i] = x /\ \A j \in 1 .. (i - 1) : l[j] # x
    IN  [i \in 1 .. (Len(l) - 1) |-> IF i < k THEN l[i] ELSE l[i + 1]]

\* d[k] = v and del d[k] on a dict whose order nothing reads
Put(f, k, v) == [x \in DOMAIN f \cup {k} |-> IF x = k THEN v ELSE f[x]]
Drop(f, k) == [x \in DOMAIN f \ {k} |-> f[x]]
\* d.get(k, [])
GetList(f, k) == IF k \in DOMAIN f THEN f[k] ELSE <<>>

(***************************************************************************)
(* A dict iterator (for user_id, websocket in d.items()): the position in  *)
(* the entry array, the size the dict had when the loop started, and the   *)
(* number of items still expected.                                         *)
(***************************************************************************)
NoIter == [pos |-> 0, used |-> 0, len |-> 0]
NewIter(d) == [pos |-> 1, used |-> DictUsed(d), len |-> DictUsed(d)]
NextLive(d, pos) ==
    IF \E i \in Live(d) : i >= pos
    THEN CHOOSE i \in Live(d) : i >= pos /\ \A j \in Live(d) : j >= pos => i <= j
    ELSE 0

VARIABLES
    active_connections,   \* video_manager: call_id -> dict user_id -> websocket
    call_participants,    \* video_manager: call_id -> list of user_id
    user_calls,           \* video_manager: user_id -> call_id
    vsess,                \* websocket -> its video_websocket_endpoint task
    endReq                \* the end_video_call request in flight

videoVars == <<active_connections, call_participants, user_calls, vsess, endReq>>

VARIABLES
    chat_connections,     \* manager.active_connections: list of websocket
    user_connections,     \* manager.user_connections: user_id -> websocket
    csess,                \* websocket -> its websocket_endpoint task
    unreg,                \* history: users unregistered since they last registered
    lastSends,            \* history: the sends attempted by the last step
    lastCmd               \* history: the send_message command of the last step

chatVars == <<chat_connections, user_connections, csess, unreg, lastSends, lastCmd>>
vars == <<active_connections, call_participants, user_calls, vsess, endReq,
          chat_connections, user_connections, csess, unreg, lastSends, lastCmd>>

Tables == [ac |-> active_connections, cp |-> call_participants, uc |-> user_calls]

NoMsg == [type |-> "", user_id |-> NoUser, participants |-> <<>>]
\* A task of video_websocket_endpoint.  pc: idle (not connected yet), joining
\* (suspended in a send_text of the user_joined broadcast), reading (in
\* receive_text), leaving (suspended in a send_text of the user_left
\* broadcast), closed (returned), crashed (ended by an exception).
\* While a broadcast is in flight: it (its dict iterator), msg (its message),
\* sent (history: the entries it was delivered to), audience (history: the
\* users with an open websocket it had to reach when it started) and before
\* (history: the call's member list before the join / disconnect).
\* left (history): leave_video_call or end_video_call has been applied to this
\* task's (call_id, user_id) since it joined.
IdleSess ==
    [pc |-> "idle", call_id |-> NoCall, user_id |-> NoUser, it |-> NoIter,
     msg |-> NoMsg, sent |-> <<>>, audience |-> {}, before |-> <<>>,
     left |-> FALSE]
\* the end_video_call request: idle, or sending (suspended in a send_text of
\* the call_ended broadcast)
\* status_code (history): the response of the last request, if it was
\* rejected
IdleEnd ==
    [pc |-> "idle", call_id |-> NoCall, ended_by |-> NoUser, it |-> NoIter,
     sent |-> <<>>, status_code |-> 0]

\* the websocket is open: accepted, not dropped by the client, handler alive
\* (forwarding and signaling: handle_video_message is suspended in a send_text
\* of send_to_user / of send_to_call)
WsOpen(w) == vsess[w].pc \in {"joining", "reading", "forwarding", "signaling"}

(***************************************************************************)
(* VideoConnectionManager                                                  *)
(***************************************************************************)
\* a connect that appends the user without looking for it in the list
VConnectAlwaysAppends(t, websocket, call_id, user_id) ==
    LET ac0 == IF call_id \in DOMAIN t.ac THEN t.ac ELSE Put(t.ac, call_id, <<>>)
        cp0 == IF call_id \in DOMAIN t.cp THEN t.cp ELSE Put(t.cp, call_id, <<>>)
    IN  [ac |-> [ac0 EXCEPT ![call_id] = DictSet(@, user_id, websocket)],
         cp |-> [cp0 EXCEPT ![call_id] = Append(@, user_id)],
         uc |-> Put(t.uc, user_id, call_id)]

VConnect(t, websocket, call_id, user_id) ==
    LET ac0 == IF call_id \in DOMAIN t.ac THEN t.ac ELSE Put(t.ac, call_id, <<>>)
        cp0 == IF call_id \in DOMAIN t.cp THEN t.cp ELSE Put(t.cp, call_id, <<>>)
    IN  [ac |-> [ac0 EXCEPT ![call_id] = DictSet(@, user_id, websocket)],
         cp |-> IF user_id \in Range(cp0[call_id])
                THEN cp0
                ELSE [cp0 EXCEPT ![call_id] = Append(@, user_id)],
         uc |-> Put(t.uc, user_id, call_id)]

\* a disconnect that pops the last member instead of removing user_id
VDisconnectPopsLast(t, call_id, user_id) ==
    [ac |-> IF call_id \in DOMAIN t.ac /\ user_id \in DictKeys(t.ac[call_id])
            THEN [t.ac EXCEPT ![call_id] = DictDel(@, user_id)]
            ELSE t.ac,
     cp |-> IF call_id \in DOMAIN t.cp /\ t.cp[call_id] # <<>>
            THEN [t.cp EXCEPT ![call_id] = SubSeq(@, 1, Len(@) - 1)]
            ELSE t.cp,
     uc |-> IF user_id \in DOMAIN t.uc THEN Drop(t.uc, user_id) ELSE t.uc]

VDisconnect(t, call_id, user_id) ==
    [ac |-> IF call_id \in DOMAIN t.ac /\ user_id \in DictKeys(t.ac[call_id])
            THEN [t.ac EXCEPT ![call_id] = DictDel(@, user_id)]
            ELSE t.ac,
     cp |-> IF call_id \in DOMAIN t.cp /\ user_id \in Range(t.cp[call_id])
            THEN [t.cp EXCEPT ![call_id] = ListRemove(@, user_id)]
            ELSE t.cp,
     uc |-> IF user_id \in DOMAIN t.uc THEN Drop(t.uc, user_id) ELSE t.uc]

\* The loop of send_to_call from its iterator to its next send_text: "send"
\* (to an entry), "stop" (the loop is over) or "error" (RuntimeError: the
\* dict changed size, or its keys changed, during the iteration).
RECURSIVE IterNext(_, _, _)
IterNext(d, it, exclude_user) ==
    IF it.used # DictUsed(d)
    THEN [kind |-> "error", it |-> NoIter, to |-> Dummy]
    ELSE LET i == NextLive(d, it.pos) IN
         IF i = 0
         THEN [kind |-> "stop", it |-> NoIter, to |-> Dummy]
         ELSE IF it.len = 0
         THEN [kind |-> "error", it |-> NoIter, to |-> Dummy]
         ELSE LET it2 == [pos |-> i + 1, used |-> it.used, len |-> it.len - 1] IN
              IF d[i].user # exclude_user
              THEN [kind |-> "send", it |-> it2, to |-> d[i]]
              ELSE IterNext(d, it2, exclude_user)

SendToCall(ac, call_id, it, exclude_user) ==
    IF call_id \in DOMAIN ac
    THEN IterNext(ac[call_id], it, exclude_user)
    ELSE [kind |-> "stop", it |-> NoIter, to |-> Dummy]

StartIter(ac, call_id) ==
    IF call_id \in DOMAIN ac THEN NewIter(ac[call_id]) ELSE NoIter

\* websocket.send_text inside send_to_call: delivers on an open websocket,
\* raises on a closed one (the bare except swallows it)
Deliver(sent, to) == IF WsOpen(to.ws) THEN Append(sent, to) ELSE sent

\* a websocket task after the run r of its send_to_call loop
AfterRun(s, r, donePc) ==
    CASE r.kind = "send" -> [s EXCEPT !.it = r.it, !.sent = Deliver(@, r.to)]
      [] r.kind = "stop" ->
            IF donePc = "reading"
            THEN [IdleSess EXCEPT !.pc = "reading", !.call_id = s.call_id,
                                  !.user_id = s.user_id, !.left = s.left]
            ELSE [IdleSess EXCEPT !.pc = "closed"]
      [] OTHER -> [IdleSess EXCEPT !.pc = "crashed"]

\* the users a broadcast that starts now has to reach: the keys of the call's
\* dict, but exclude_user, whose websocket is open
Audience(ac, call_id, exclude_user) ==
    IF call_id \in DOMAIN ac
    THEN {ac[call_id][i].user : i \in {j \in Live(ac[call_id]) :
              ac[call_id][j].user # exclude_user /\ WsOpen(ac[call_id][j].ws)}}
    ELSE {}

SetTables(t) ==
    /\ active_connections' = t.ac
    /\ call_participants' = t.cp
    /\ user_calls' = t.uc

VInit ==
    /\ active_connections = [c \in {} |-> <<>>]
    /\ call_participants = [c \in {} |-> <<>>]
    /\ user_calls = [u \in {} |-> NoCall]
    /\ vsess = [w \in Socks |-> IdleSess]
    /\ endReq = IdleEnd

\* video_websocket_endpoint, lines 66-77: connect, then the user_joined
\* broadcast up to its first send_text.  Websockets are numbered in the order
\* they connect.
VideoConnect(call_id, user_id) ==
    \E w \in Socks :
        /\ vsess[w].pc = "idle"
        /\ \A v \in Socks : v < w => vsess[v].pc # "idle"
        /\ LET t == VConnect(Tables, w, call_id, user_id)
               s == [IdleSess EXCEPT
                        !.pc = "joining", !.call_id = call_id, !.user_id = user_id,
                        !.msg = [type |-> "user_joined", user_id |-> user_id,
                                 participants |-> GetList(t.cp, call_id)],
                        !.audience = Audience(t.ac, call_id, user_id),
                        !.before = GetList(call_participants, call_id)]
               r == SendToCall(t.ac, call_id, StartIter(t.ac, call_id), user_id)
           IN  /\ SetTables(t)
               /\ vsess' = [vsess EXCEPT ![w] = AfterRun(s, r, "reading")]
        /\ UNCHANGED endReq
        /\ UNCHANGED chatVars

\* a suspended broadcast of a websocket task resumes: the loop runs to its
\* next send_text, to its end, or raises RuntimeError, which nothing catches
VideoResume(w) ==
    /\ vsess[w].pc \in {"joining", "leaving"}
    /\ LET s == vsess[w]
           joining == s.pc = "joining"
           r == SendToCall(active_connections, s.call_id, s.it,
                           IF joining THEN s.user_id ELSE NoUser)
       IN  vsess' = [vsess EXCEPT ![w] =
                        AfterRun(s, r, IF joining THEN "reading" ELSE "closed")]
    /\ UNCHANGED <<active_connections, call_participants, user_calls, endReq>>
    /\ UNCHANGED chatVars

\* video_websocket_endpoint, lines 83-94: receive_text raises
\* WebSocketDisconnect; disconnect, then the user_left broadcast
VideoClientDrop(w) ==
    /\ vsess[w].pc = "reading"
    /\ LET s0 == vsess[w]
           c == s0.call_id
           u == s0.user_id
           t == VDisconnect(Tables, c, u)
           s == [s0 EXCEPT
                    !.pc = "leaving",
                    !.msg = [type |-> "user_left", user_id |-> u,
                             participants |-> GetList(t.cp, c)],
                    !.audience = Audience(t.ac, c, NoUser),
                    !.before = GetList(call_participants, c)]
           r == SendToCall(t.ac, c, StartIter(t.ac, c), NoUser)
       IN  /\ SetTables(t)
           /\ vsess' = [vsess EXCEPT ![w] = AfterRun(s, r, "closed")]
    /\ UNCHANGED endReq
    /\ UNCHANGED chatVars

\* handle_video_message, lines 100-101: a frame that is JSON but not an object
\* (e.g. "[1]"): message.get raises AttributeError, which neither
\* handle_video_message nor the endpoint catches; the task ends, no cleanup
VideoNonObjectFrame(w) ==
    /\ vsess[w].pc = "reading"
    /\ vsess' = [vsess EXCEPT ![w] = [IdleSess EXCEPT !.pc = "crashed"]]
    /\ UNCHANGED <<active_connections, call_participants, user_calls, endReq>>
    /\ UNCHANGED chatVars

\* history: the open tasks of (call_id, users) have been left
MarkLeft(vs, call_id, users) ==
    [w \in Socks |->
        IF vs[w].call_id = call_id /\ vs[w].user_id \in users
        THEN [vs[w] EXCEPT !.left = TRUE]
        ELSE vs[w]]

\* leave_video_call for a call that has a record (lines 273-292)
LeaveVideoCall(call_id, current_user) ==
    /\ call_id \in DOMAIN VideoCallRecords
    /\ SetTables(IF /\ current_user \in DOMAIN user_calls
                    /\ user_calls[current_user] = call_id
                 THEN VDisconnect(Tables, call_id, current_user)
                 ELSE Tables)
    /\ vsess' = MarkLeft(vsess, call_id, {current_user})
    /\ UNCHANGED endReq
    /\ UNCHANGED chatVars

\* end_video_call, lines 330-333
RECURSIVE DisconnectAll(_, _, _)
DisconnectAll(t, call_id, users) ==
    IF users = <<>>
    THEN t
    ELSE DisconnectAll(VDisconnect(t, call_id, Head(users)), call_id, Tail(users))

\* end_video_call after the run r of its call_ended broadcast: on "stop" it
\* goes on to disconnect every participant; RuntimeError ends the request
EndAfter(e, r) ==
    LET c == e.call_id IN
    /\ endReq' = IF r.kind = "send"
                 THEN [e EXCEPT !.it = r.it, !.sent = Deliver(@, r.to)]
                 ELSE IdleEnd
    /\ SetTables(IF r.kind = "stop"
                 THEN DisconnectAll(Tables, c, GetList(call_participants, c))
                 ELSE Tables)
    /\ vsess' = IF r.kind = "stop"
                THEN MarkLeft(vsess, c, Range(GetList(call_participants, c)))
                ELSE vsess

HTTP_200_OK == 200
HTTP_403_FORBIDDEN == 403
HTTP_404_NOT_FOUND == 404

\* end_video_call, lines 301-313: the status of the response
EndStatusAnyUser(call_id, current_user) ==
    IF call_id \notin DOMAIN VideoCallRecords
    THEN HTTP_404_NOT_FOUND
    ELSE HTTP_200_OK
EndStatus(call_id, current_user) ==
    IF call_id \notin DOMAIN VideoCallRecords
    THEN HTTP_404_NOT_FOUND
    ELSE IF VideoCallRecords[call_id].creator_id # current_user
    THEN HTTP_403_FORBIDDEN
    ELSE HTTP_200_OK

\* end_video_call that raises HTTPException (lines 301-313)
EndVideoCallRejected(call_id, current_user) ==
    /\ endReq.pc = "idle"
    /\ EndStatus(call_id, current_user) # HTTP_200_OK
    /\ endReq' = [IdleEnd EXCEPT !.call_id = call_id, !.ended_by = current_user,
                                 !.status_code = EndStatus(call_id, current_user)]
    /\ UNCHANGED <<active_connections, call_participants, user_calls, vsess>>
    /\ UNCHANGED chatVars

\* end_video_call by the creator of a call that has a record (lines 301-328)
EndVideoCall(call_id, current_user) ==
    /\ endReq.pc = "idle"
    /\ EndStatus(call_id, current_user) = HTTP_200_OK
    /\ EndAfter([IdleEnd EXCEPT !.pc = "sending", !.call_id = call_id,
                                !.ended_by = current_user],
                SendToCall(active_connections, call_id,
                           StartIter(active_connections, call_id), NoUser))
    /\ UNCHANGED chatVars

\* the call_ended broadcast resumes
EndResume ==
    /\ endReq.pc = "sending"
    /\ EndAfter(endReq,
                SendToCall(active_connections, endReq.call_id, endReq.it, NoUser))
    /\ UNCHANGED chatVars

(***************************************************************************)
(* handle_video_message: WebRTC signaling                                  *)
(***************************************************************************)
\* the websockets of the specification of unicast signaling
MaxSigSock == 2

MessageTypes == {"offer", "answer", "ice_candidate", "mute", "unmute", "video_toggle"}

\* send_to_user up to its send_text: the entry it sends to, or Dummy
SendToUserAnyCall(ac, call_id, user_id) ==
    IF \E c \in DOMAIN ac : user_id \in DictKeys(ac[c])
    THEN LET c == CHOOSE c \in DOMAIN ac : user_id \in DictKeys(ac[c])
         IN  [user |-> user_id, ws |-> DictGet(ac[c], user_id)]
    ELSE Dummy
SendToUser(ac, call_id, user_id) ==
    IF call_id \in DOMAIN ac /\ user_id \in DictKeys(ac[call_id])
    THEN [user |-> user_id, ws |-> DictGet(ac[call_id], user_id)]
    ELSE Dummy

\* lines 103-143 with a truthy target_user: offer, answer and ice_candidate
\* go to send_to_user; the task is suspended in its send_text, whose
\* exception, if any, the bare except swallows
Unicast(w, type, target_user) ==
    LET s == vsess[w]
        to == SendToUser(active_connections, s.call_id, target_user)
    IN  IF to = Dummy
        THEN vsess
        ELSE [vsess EXCEPT ![w] =
                 [s EXCEPT !.pc = "forwarding",
                           !.msg = [type |-> type, from_user |-> s.user_id],
                           !.audience = {target_user},
                           !.sent = Deliver(<<>>, to)]]

\* lines 131-166: ice_candidate without target_user, mute, unmute and
\* video_toggle go to send_to_call, excluding the sender
Broadcast(w, type) ==
    LET s0 == vsess[w]
        c == s0.call_id
        u == s0.user_id
        s == [s0 EXCEPT
                 !.pc = "signaling",
                 !.msg = IF type = "ice_candidate"
                         THEN [type |-> type, from_user |-> u]
                         ELSE [type |-> type, user_id |-> u],
                 !.audience = Audience(active_connections, c, u)]
        r == SendToCall(active_connections, c, StartIter(active_connections, c), u)
    IN  [vsess EXCEPT ![w] = AfterRun(s, r, "reading")]

\* handle_video_message for a frame that is a JSON object, up to its first
\* send_text (target_user = NoUser: missing, null or empty)
HandleVideoMessage(w, type, target_user) ==
    /\ vsess[w].pc = "reading"
    /\ vsess' = IF type \in {"offer", "answer"}
                THEN IF target_user # NoUser
                     THEN Unicast(w, type, target_user)
                     ELSE vsess
                ELSE IF type = "ice_candidate" /\ target_user # NoUser
                THEN Unicast(w, type, target_user)
                ELSE Broadcast(w, type)
    /\ UNCHANGED <<active_connections, call_participants, user_calls, endReq>>
    /\ UNCHANGED chatVars

\* handle_video_message for a frame it ignores: text that is not JSON
\* (json.loads raises JSONDecodeError, lines 168-169) or an object whose type
\* matches no branch; it returns and the endpoint goes back to receive_text
VideoIgnoredFrame(w) ==
    /\ vsess[w].pc = "reading"
    /\ UNCHANGED videoVars
    /\ UNCHANGED chatVars

\* the suspended send_text of handle_video_message returns: send_to_user is
\* over; the loop of send_to_call runs to its next send_text, to its end, or
\* raises RuntimeError, which neither handle_video_message (it catches
\* JSONDecodeError) nor the endpoint (WebSocketDisconnect) catches
VideoSignalResume(w) ==
    /\ vsess[w].pc \in {"forwarding", "signaling"}
    /\ LET s == vsess[w]
           r == IF s.pc = "forwarding"
                THEN [kind |-> "stop", it |-> NoIter, to |-> Dummy]
                ELSE SendToCall(active_connections, s.call_id, s.it, s.user_id)
       IN  vsess' = [vsess EXCEPT ![w] = AfterRun(s, r, "reading")]
    /\ UNCHANGED <<active_connections, call_participants, user_calls, endReq>>
    /\ UNCHANGED chatVars

(***************************************************************************)
(* routers/messaging_router.py: the chat relay                             *)
(***************************************************************************)
\* chat websockets opened during a run
MaxChat == 3
ChatSocks == 1 .. MaxChat

\* db.get_event_participants: the user_id of the active rows of an event
EventParticipants ==
    [e \in {"e1", "e2"} |-> IF e = "e1" THEN <<"a", "b", "c">> ELSE <<"a", "b">>]

Registry == [active |-> chat_connections, users |-> user_connections]

\* message_data.get(key) of a key that is missing or null
None == "None"
\* the event_id and recipient_id a send_message frame can carry
RawEventIds == {None, "undefined", ""} \cup DOMAIN EventParticipants
RawRecipientIds == {None, "undefined", ""} \cup Users

\* a row of the messages table, as db.send_message returns it
NoRecord == [sender_id |-> NoUser, event_id |-> None, recipient_id |-> None]
\* The send_message command of the last step, as history: event_id and
\* recipient_id (as the frame carried them), outcome (rejected / not_stored /
\* stored) and stored (the row it stored).
NoCmd ==
    [event_id |-> None, recipient_id |-> None, outcome |-> "none",
     stored |-> NoRecord]

\* A task of websocket_endpoint.  pc: idle, reading (in receive_text), fanout
\* (suspended in a send_text of send_event_message), closed (returned after
\* manager.disconnect), crashed (ended by an exception, no cleanup).
\* In a fanout: event_id and idx, the next participant of the loop; sent
\* (history: the participants it was delivered to, with their websocket) and
\* audience (history: the participants other than the sender that were
\* registered when it started).
\* inbox: the frames the client has written that receive_text has not
\* returned yet, oldest first; written: how many the client has written;
\* received (history): the direct messages delivered on this websocket.
IdleChat ==
    [pc |-> "idle", user_id |-> NoUser, event_id |-> "", idx |-> 0,
     sent |-> <<>>, audience |-> {}, inbox |-> <<>>, written |-> 0,
     received |-> <<>>]

ChatOpen(w) == csess[w].pc \in {"reading", "fanout"}

(***************************************************************************)
(* ConnectionManager                                                       *)
(***************************************************************************)
CConnect(t, websocket, user_id) ==
    [active |-> Append(t.active, websocket),
     users |-> Put(t.users, user_id, websocket)]

\* a disconnect that forgets "del self.user_connections[user_id]"
CDisconnectKeepsUser(t, websocket, user_id) ==
    [active |-> IF websocket \in Range(t.active)
                THEN ListRemove(t.active, websocket)
                ELSE t.active,
     users |-> t.users]

CDisconnect(t, websocket, user_id) ==
    [active |-> IF websocket \in Range(t.active)
                THEN ListRemove(t.active, websocket)
                ELSE t.active,
     users |-> IF user_id \in DOMAIN t.users THEN Drop(t.users, user_id) ELSE t.users]

\* One attempted send, as history: kind (direct / event), to (the user it is
\* addressed to), ws (the websocket it was delivered on, 0 if none), log (what
\* the code prints about it), ret (what the send returns to its caller:
\* neither function has a return statement), afterUnreg (to was unregistered
\* and had not registered again).
Attempt(kind, to, ws, log) ==
    [kind |-> kind, to |-> to, ws |-> ws, log |-> log, ret |-> "None",
     afterUnreg |-> to \in unreg]

\* send_personal_message(message, user_id), lines 32-38: "sent" on an open
\* websocket, "raise" on a closed one, "skip" when user_id is not registered
SendPersonal(users, user_id) ==
    IF user_id \in DOMAIN users
    THEN IF ChatOpen(users[user_id])
         THEN [kind |-> "sent", ws |-> users[user_id]]
         ELSE [kind |-> "raise", ws |-> 0]
    ELSE [kind |-> "skip", ws |-> 0]

\* The loop of send_event_message (lines 45-50) from participant i to its next
\* send_text: "send" (to a participant), or "stop"; skipped: the participants
\* other than the sender it passed over because they are not registered.
RECURSIVE FanNext(_, _, _, _)
FanNext(parts, i, sender_id, users) ==
    IF i > Len(parts)
    THEN [kind |-> "stop", idx |-> 0, to |-> NoUser, skipped |-> <<>>]
    ELSE IF parts[i] # sender_id /\ parts[i] \in DOMAIN users
    THEN [kind |-> "send", idx |-> i + 1, to |-> parts[i], skipped |-> <<>>]
    ELSE LET r == FanNext(parts, i + 1, sender_id, users) IN
         IF parts[i] = sender_id THEN r ELSE [r EXCEPT !.skipped = <<parts[i]>> \o @]

SetRegistry(t) ==
    /\ chat_connections' = t.active
    /\ user_connections' = t.users

CInit ==
    /\ chat_connections = <<>>
    /\ user_connections = [u \in {} |-> 0]
    /\ csess = [w \in ChatSocks |-> IdleChat]
    /\ unreg = {}
    /\ lastSends = <<>>
    /\ lastCmd = NoCmd

\* websocket_endpoint, line 66.  Websockets are numbered in the order they
\* connect.
ChatConnect(user_id) ==
    \E w \in ChatSocks :
        /\ csess[w].pc = "idle"
        /\ \A v \in ChatSocks : v < w => csess[v].pc # "idle"
        /\ SetRegistry(CConnect(Registry, w, user_id))
        /\ csess' = [csess EXCEPT ![w] = [IdleChat EXCEPT !.pc = "reading",
                                                            !.user_id = user_id]]
        /\ unreg' = unreg \ {user_id}
        /\ lastSends' = <<>>
        /\ lastCmd' = NoCmd
        /\ UNCHANGED videoVars

\* websocket_endpoint, lines 78-79: receive_text raises WebSocketDisconnect
ChatClientDrop(w) ==
    /\ csess[w].pc = "reading"
    /\ SetRegistry(CDisconnect(Registry, w, csess[w].user_id))
    /\ csess' = [csess EXCEPT ![w] = [IdleChat EXCEPT !.pc = "closed"]]
    /\ unreg' = unreg \cup {csess[w].user_id}
    /\ lastSends' = <<>>
    /\ lastCmd' = NoCmd
    /\ UNCHANGED videoVars

\* handle_websocket_message, line 84: a frame that is JSON but not an object
\* (e.g. "[1]"): message_data.get raises AttributeError, which the endpoint
\* (except json.JSONDecodeError, except WebSocketDisconnect) does not catch
ChatNonObjectFrame(w) ==
    /\ csess[w].pc = "reading"
    /\ csess' = [csess EXCEPT ![w].pc = "crashed"]
    /\ lastSends' = <<>>
    /\ lastCmd' = NoCmd
    /\ UNCHANGED <<chat_connections, user_connections, unreg>>
    /\ UNCHANGED videoVars

\* websocket_endpoint, lines 71-77: a frame that is not JSON: json.loads
\* raises JSONDecodeError and the endpoint replies on its own websocket with
\* {"error": "Invalid JSON format"}, then goes back to receive_text
ChatInvalidJson(w) ==
    /\ csess[w].pc = "reading"
    /\ lastSends' = <<Attempt("invalid_json", csess[w].user_id, w, "sent")>>
    /\ lastCmd' = NoCmd
    /\ UNCHANGED <<chat_connections, user_connections, csess, unreg>>
    /\ UNCHANGED videoVars

\* handle_websocket_message, lines 137-146: a stored send_message with a
\* recipient_id and no event_id.  A send_text that raises is not caught by
\* send_personal_message nor by handle_websocket_message: in the endpoint a
\* WebSocketDisconnect unregisters the sender, any other exception ends the
\* task with no cleanup (which one is raised depends on the server library).
ChatDirect(w, recipient_id) ==
    /\ csess[w].pc = "reading"
    /\ LET r == SendPersonal(user_connections, recipient_id) IN
       \/ /\ r.kind = "sent"
          /\ lastSends' = <<Attempt("direct", recipient_id, r.ws, "sent")>>
          /\ UNCHANGED <<chat_connections, user_connections, csess, unreg>>
       \/ /\ r.kind = "skip"
          /\ lastSends' = <<Attempt("direct", recipient_id, 0, "not_connected")>>
          /\ UNCHANGED <<chat_connections, user_connections, csess, unreg>>
       \/ /\ r.kind = "raise"
          /\ lastSends' = <<Attempt("direct", recipient_id, 0, "")>>
          /\ \/ /\ SetRegistry(CDisconnect(Registry, w, csess[w].user_id))
                /\ csess' = [csess EXCEPT ![w] = [IdleChat EXCEPT !.pc = "closed"]]
                /\ unreg' = unreg \cup {csess[w].user_id}
             \/ /\ csess' = [csess EXCEPT ![w].pc = "crashed"]
                /\ UNCHANGED <<chat_connections, user_connections, unreg>>
    /\ UNCHANGED videoVars

\* frames a client writes on one connection
MaxFrames == 2

\* the client of websocket w writes a frame: a send_message to recipient_id,
\* or (recipient_id = NoUser) a frame that is JSON but not an object
ClientWrite(w, recipient_id) ==
    /\ csess[w].pc = "reading"
    /\ csess[w].written < MaxFrames
    /\ csess' = [csess EXCEPT
                    ![w].written = @ + 1,
                    ![w].inbox = Append(@, [recipient_id |-> recipient_id,
                                            n |-> csess[w].written + 1])]
    /\ lastSends' = <<>>
    /\ lastCmd' = NoCmd
    /\ UNCHANGED <<chat_connections, user_connections, unreg>>
    /\ UNCHANGED videoVars

\* a receive_text that returns the newest frame
ReceiveTextNewest(inbox) ==
    [data |-> inbox[Len(inbox)], rest |-> SubSeq(inbox, 1, Len(inbox) - 1)]
\* websocket.receive_text, line 69: the oldest frame not returned yet
ReceiveText(inbox) == [data |-> Head(inbox), rest |-> Tail(inbox)]

\* websocket_endpoint, lines 68-72, one turn of the loop: receive_text, then
\* handle_websocket_message to its end (direct message, lines 137-146); the
\* next frame is not received before the handler has returned
ChatReceive(w) ==
    /\ csess[w].pc = "reading"
    /\ csess[w].inbox # <<>>
    /\ LET rcv == ReceiveText(csess[w].inbox)
           f == rcv.data
           r == SendPersonal(user_connections, f.recipient_id)
           popped == [csess EXCEPT ![w].inbox = rcv.rest]
       IN  IF f.recipient_id = NoUser
           THEN /\ csess' = [popped EXCEPT ![w].pc = "crashed"]
                /\ lastSends' = <<>>
                /\ UNCHANGED <<chat_connections, user_connections, unreg>>
           ELSE \/ /\ r.kind = "sent"
                   /\ csess' = [popped EXCEPT ![r.ws].received =
                                   Append(@, [from |-> w, n |-> f.n])]
                   /\ lastSends' = <<Attempt("direct", f.recipient_id, r.ws, "sent")>>
                   /\ UNCHANGED <<chat_connections, user_connections, unreg>>
                \/ /\ r.kind = "skip"
                   /\ csess' = popped
                   /\ lastSends' = <<Attempt("direct", f.recipient_id, 0, "not_connected")>>
                   /\ UNCHANGED <<chat_connections, user_connections, unreg>>
                \/ /\ r.kind = "raise"
                   /\ lastSends' = <<Attempt("direct", f.recipient_id, 0, "")>>
                   /\ \/ /\ SetRegistry(CDisconnect(Registry, w, csess[w].user_id))
                         /\ csess' = [csess EXCEPT ![w] = [IdleChat EXCEPT !.pc = "closed"]]
                         /\ unreg' = unreg \cup {csess[w].user_id}
                      \/ /\ csess' = [popped EXCEPT ![w].pc = "crashed"]
                         /\ UNCHANGED <<chat_connections, user_connections, unreg>>
    /\ lastCmd' = NoCmd
    /\ UNCHANGED videoVars

\* the participants of event_id, but the sender, that are registered
FanAudience(event_id, sender_id) ==
    {u \in Range(GetList(EventParticipants, event_id)) :
        u # sender_id /\ u \in DOMAIN user_connections}

\* send_event_message after the run r of its loop: a send_text that raises is
\* caught by the except around the loop, which ends the fan-out
FanAfter(w, event_id, r) ==
    LET skips == [i \in DOMAIN r.skipped |-> Attempt("event", r.skipped[i], 0, "")]
        ws == IF r.kind = "send" THEN user_connections[r.to] ELSE 0
        ok == r.kind = "send" /\ ChatOpen(ws)
    IN  /\ lastSends' =
              IF r.kind = "send"
              THEN Append(skips, Attempt("event", r.to, IF ok THEN ws ELSE 0,
                                         IF ok THEN "sent" ELSE "error"))
              ELSE skips
        /\ csess' = [csess EXCEPT ![w] =
              IF ok
              THEN [@ EXCEPT !.pc = "fanout", !.event_id = event_id, !.idx = r.idx,
                             !.sent = Append(@, [user |-> r.to, ws |-> ws]),
                             !.audience =
                                 IF csess[w].pc = "fanout" THEN @
                                 ELSE FanAudience(event_id, csess[w].user_id)]
              ELSE [IdleChat EXCEPT !.pc = "reading", !.user_id = csess[w].user_id]]
        /\ UNCHANGED <<chat_connections, user_connections, unreg>>

\* handle_websocket_message, lines 126-136: a stored send_message with an
\* event_id; send_event_message up to its first send_text
ChatEvent(w, event_id) ==
    /\ csess[w].pc = "reading"
    /\ FanAfter(w, event_id,
                FanNext(GetList(EventParticipants, event_id), 1, csess[w].user_id,
                        user_connections))
    /\ UNCHANGED videoVars

\* a suspended send_event_message resumes
ChatFanResume(w) ==
    /\ csess[w].pc = "fanout"
    /\ lastCmd' = NoCmd
    /\ FanAfter(w, csess[w].event_id,
                FanNext(GetList(EventParticipants, csess[w].event_id), csess[w].idx,
                        csess[w].user_id, user_connections))
    /\ UNCHANGED videoVars

\* a normalisation that forgets the "undefined" a JavaScript client sends
NormalizeNullOnly(x) == IF x = None THEN None ELSE x

\* handle_websocket_message, lines 91-95: "undefined" and null become None
Normalize(x) == IF x = "undefined" \/ x = None THEN None ELSE x
\* truth value of an Optional[str]
Truthy(x) == x # None /\ x # ""
\* handle_websocket_message, lines 99-102
HasTarget(event_id, recipient_id) == Truthy(event_id) \/ Truthy(recipient_id)

\* handle_websocket_message for a send_message frame (lines 86-148); stored_ok:
\* db.send_message returned the stored row (None when the insert failed)
ChatSendMessage(w, event_id, recipient_id, stored_ok) ==
    /\ csess[w].pc = "reading"
    /\ LET e == Normalize(event_id)
           r == Normalize(recipient_id)
           cmd == [NoCmd EXCEPT !.event_id = event_id,
                                !.recipient_id = recipient_id]
           row == [sender_id |-> csess[w].user_id, event_id |-> e,
                   recipient_id |-> r]
       IN  IF ~HasTarget(e, r)
           THEN /\ lastCmd' = [cmd EXCEPT !.outcome = "rejected"]
                /\ lastSends' = <<>>
                /\ UNCHANGED <<chat_connections, user_connections, csess, unreg>>
           ELSE IF ~stored_ok
           THEN /\ lastCmd' = [cmd EXCEPT !.outcome = "not_stored"]
                /\ lastSends' = <<>>
                /\ UNCHANGED <<chat_connections, user_connections, csess, unreg>>
           ELSE /\ lastCmd' = [cmd EXCEPT !.outcome = "stored", !.stored = row]
                /\ IF Truthy(e) THEN ChatEvent(w, e) ELSE ChatDirect(w, r)
    /\ UNCHANGED videoVars

ChatNext ==
    \/ \E u \in Users : ChatConnect(u)
    \/ \E w \in ChatSocks : ChatClientDrop(w)
    \/ \E w \in ChatSocks : ChatNonObjectFrame(w)
    \/ \E w \in ChatSocks, u \in Users : ChatSendMessage(w, None, u, TRUE)
    \/ \E w \in ChatSocks, e \in DOMAIN EventParticipants :
          ChatSendMessage(w, e, None, TRUE)
    \/ \E w \in ChatSocks : ChatFanResume(w)

\* chat websockets opened during a run that sends frames of any shape
MaxCmdSock == 2

\* websocket_endpoint, line 66, while fewer than MaxCmdSock have been opened
CmdConnect(user_id) ==
    /\ csess[MaxCmdSock].pc = "idle"
    /\ ChatConnect(user_id)

\* the chat relay under send_message frames of any shape, stored or not
CmdNext ==
    \/ \E u \in Users : CmdConnect(u)
    \/ \E w \in ChatSocks : ChatClientDrop(w)
    \/ \E w \in ChatSocks, e \in RawEventIds, r \in RawRecipientIds,
          stored_ok \in BOOLEAN : ChatSendMessage(w, e, r, stored_ok)
    \/ \E w \in ChatSocks : ChatFanResume(w)

\* the chat relay under frames that do not parse into a command
FrameNext ==
    \/ \E u \in Users : CmdConnect(u)
    \/ \E w \in ChatSocks : ChatClientDrop(w)
    \/ \E w \in ChatSocks : ChatInvalidJson(w)
    \/ \E w \in ChatSocks : ChatNonObjectFrame(w)
    \/ \E w \in ChatSocks, u \in Users : ChatSendMessage(w, None, u, TRUE)

\* the chat relay with the frames of each connection queued in arrival order
OrderNext ==
    \/ \E u \in Users : CmdConnect(u)
    \/ \E w \in ChatSocks, u \in Users \cup {NoUser} : ClientWrite(w, u)
    \/ \E w \in ChatSocks : ChatReceive(w)

Init == VInit /\ CInit

VideoNext ==
    \/ \E c \in Calls, u \in Users : VideoConnect(c, u)
    \/ \E w \in Socks : VideoResume(w)
    \/ \E w \in Socks : VideoClientDrop(w)
    \/ \E w \in Socks : VideoNonObjectFrame(w)
    \/ \E c \in Calls, u \in Users : LeaveVideoCall(c, u)
    \/ \E c \in Calls, u \in Users : EndVideoCall(c, u)
    \/ EndResume

\* the signaling relay alone, and the chat relay alone: the two managers
\* share no state
\* the signaling relay: joins, drops, leaves and signaling frames
SignalNext ==
    \/ \E c \in Calls, u \in Users : VideoConnect(c, u)
    \/ \E w \in Socks : VideoResume(w)
    \/ \E w \in Socks : VideoClientDrop(w)
    \/ \E w \in Socks : VideoNonObjectFrame(w)
    \/ \E w \in Socks, type \in MessageTypes, u \in Users \cup {NoUser} :
           HandleVideoMessage(w, type, u)
    \/ \E w \in Socks : VideoSignalResume(w)

\* the signaling relay on at most MaxSigSock websockets
SigConnect(call_id, user_id) ==
    /\ vsess[MaxSigSock].pc = "idle"
    /\ VideoConnect(call_id, user_id)

UnicastNext ==
    \/ \E c \in Calls, u \in Users : SigConnect(c, u)
    \/ \E w \in Socks : VideoResume(w)
    \/ \E w \in Socks : VideoClientDrop(w)
    \/ \E w \in Socks : VideoNonObjectFrame(w)
    \/ \E w \in Socks, type \in MessageTypes, u \in Users \cup {NoUser} :
           HandleVideoMessage(w, type, u)
    \/ \E w \in Socks : VideoSignalResume(w)

\* end_video_call requests, accepted and rejected, on at most MaxSigSock
\* websockets
EndNext ==
    \/ \E c \in Calls, u \in Users : SigConnect(c, u)
    \/ \E w \in Socks : VideoResume(w)
    \/ \E w \in Socks : VideoClientDrop(w)
    \/ \E c \in Calls, u \in Users : EndVideoCallRejected(c, u)
    \/ \E c \in Calls, u \in Users : EndVideoCall(c, u)
    \/ EndResume

\* the signaling relay under frames of any shape, on at most MaxSigSock
\* websockets
EnvelopeNext ==
    \/ \E c \in Calls, u \in Users : SigConnect(c, u)
    \/ \E w \in Socks : VideoResume(w)
    \/ \E w \in Socks : VideoClientDrop(w)
    \/ \E w \in Socks : VideoIgnoredFrame(w)
    \/ \E w \in Socks : VideoNonObjectFrame(w)
    \/ \E w \in Socks, type \in MessageTypes, u \in Users \cup {NoUser} :
           HandleVideoMessage(w, type, u)
    \/ \E w \in Socks : VideoSignalResume(w)

\* A stalled receiver: the client of websocket 1 never reads, so a send_text
\* to it never returns (the await blocks on the full write buffer).
Stalled == {1}
\* the websocket the suspended send_text of a task is writing to
SendingTo(s) == IF s.sent = <<>> THEN 0 ELSE s.sent[Len(s.sent)].ws
\* a suspended broadcast resumes when its send_text has returned or, the
\* websocket being closed meanwhile, has raised
StallResume(w) ==
    /\ LET to == SendingTo(vsess[w]) IN to \in Stalled => ~WsOpen(to)
    /\ VideoResume(w)

\* joins and drops with a stalled receiver; the event loop runs every task
\* whose await has completed (weak fairness of the resumptions)
StallNext ==
    \/ \E c \in Calls, u \in Users : VideoConnect(c, u)
    \/ \E w \in Socks : StallResume(w)
    \/ \E w \in Socks : VideoClientDrop(w)

\* connection cleanup in both relays: joins, drops, leaves, call ends
CleanupNext ==
    \/ \E c \in Calls, u \in Users : SigConnect(c, u)
    \/ \E w \in Socks : VideoResume(w)
    \/ \E w \in Socks : VideoClientDrop(w)
    \/ \E c \in Calls, u \in Users : LeaveVideoCall(c, u)
    \/ \E u \in Users : CmdConnect(u)
    \/ \E w \in ChatSocks : ChatClientDrop(w)

\* every operation that writes the three tables, on at most MaxSigSock
\* websockets
TableNext ==
    \/ \E c \in Calls, u \in Users : SigConnect(c, u)
    \/ \E w \in Socks : VideoResume(w)
    \/ \E w \in Socks : VideoClientDrop(w)
    \/ \E w \in Socks : VideoNonObjectFrame(w)
    \/ \E c \in Calls, u \in Users : LeaveVideoCall(c, u)
    \/ \E c \in Calls, u \in Users : EndVideoCall(c, u)
    \/ EndResume

\* signaling frames after an HTTP leave, on at most MaxSigSock websockets
LeftNext ==
    \/ \E c \in Calls, u \in Users : SigConnect(c, u)
    \/ \E w \in Socks : VideoResume(w)
    \/ \E c \in Calls, u \in Users : LeaveVideoCall(c, u)
    \/ \E w \in Socks, type \in MessageTypes, u \in Users \cup {NoUser} :
           HandleVideoMessage(w, type, u)
    \/ \E w \in Socks : VideoSignalResume(w)

VideoSpec == Init /\ [][VideoNext]_vars
LeftSpec == Init /\ [][LeftNext]_vars
TableSpec == Init /\ [][TableNext]_vars
CleanupSpec == Init /\ [][CleanupNext]_vars
StallSpec ==
    Init /\ [][StallNext]_vars /\ \A w \in Socks : WF_vars(StallResume(w))
EnvelopeSpec == Init /\ [][EnvelopeNext]_vars
EndSpec == Init /\ [][EndNext]_vars
UnicastSpec == Init /\ [][UnicastNext]_vars
SignalSpec == Init /\ [][SignalNext]_vars
ChatSpec == Init /\ [][ChatNext]_vars
CmdSpec == Init /\ [][CmdNext]_vars
FrameSpec == Init /\ [][FrameNext]_vars
OrderSpec == Init /\ [][OrderNext]_vars

(***************************************************************************)
(* The claims                                                              *)
(***************************************************************************)
Members(c) == Range(GetList(call_participants, c))
\* the number of entries of sent delivered to user u
Deliveries(sent, u) == Cardinality({i \in DOMAIN sent : sent[i].user = u})

\* C1: single-call-at-a-time: in every reachable state each user id is in the
\* member list of at most one call (a join to another call removes the old
\* membership).
C1_SingleCallAtATime ==
    \A u \in Users : Cardinality({c \in Calls : u \in Members(c)}) <= 1

\* C2: the call tables agree: u is in call_participants[c] if and only if
\* user_calls[u] = c (no stale membership, no stale inverse entry).
C2_TablesAgree ==
    \A u \in Users, c \in Calls :
        u \in Members(c) <=> (u \in DOMAIN user_calls /\ user_calls[u] = c)

\* C3: stale-handle protection: when the handler of a websocket that is no
\* longer the one stored for its user unregisters (the user has connected
\* again since), the user stays mapped to the connection stored for it.
C3_StaleUnregisterStep ==
    \A w \in ChatSocks :
        LET u == csess[w].user_id IN
        ( /\ csess[w].pc = "reading"
          /\ csess'[w].pc = "closed"
          /\ u \in DOMAIN user_connections
          /\ user_connections[u] # w )
        => ( /\ u \in DOMAIN user_connections'
             /\ user_connections'[u] = user_connections[u] )
C3_StaleUnregisterIsNoOp == [][C3_StaleUnregisterStep]_vars

\* C4: the chat registry holds at most one connection per user id: of the
\* websockets in active_connections, at most one belongs to any user (a
\* replaced connection is evicted).
C4_SoleEntryPerUser ==
    \A u \in Users :
        Cardinality({i \in DOMAIN chat_connections :
                        csess[chat_connections[i]].user_id = u}) <= 1

C6_RegisteredIffHandler ==
    /\ \A u \in Users :
          u \in DOMAIN user_connections
              <=> \E w \in ChatSocks : ChatOpen(w) /\ csess[w].user_id = u
    /\ \A w \in ChatSocks :
          csess[w].pc \in {"closed", "crashed"} =>
              /\ w \notin Range(chat_connections)
              /\ \A u \in DOMAIN user_connections : user_connections[u] # w

\* C7: the member list of a call is exactly the set of users that have an open
\* signaling connection to that call which joined and has not been left since.
C7_MembersAreConnected ==
    \A c \in Calls, u \in Users :
        u \in Members(c)
            <=> \E w \in Socks : /\ WsOpen(w)
                                 /\ vsess[w].call_id = c
                                 /\ vsess[w].user_id = u
                                 /\ ~vsess[w].left

\* C8: disconnect cascade: when the user_left broadcast for a member b that
\* dropped is over, its participants list is the member list without b, every
\* remaining member has been delivered it exactly once, and b has not.
C8_CascadeStep ==
    \A w \in Socks :
        LET s == vsess[w]
            inFlight == s.pc = "leaving"
            c == s.call_id
            b == s.user_id
            before == IF inFlight THEN s.before ELSE GetList(call_participants, c)
            parts == IF inFlight THEN s.msg.participants
                     ELSE GetList(call_participants', c)
            sent == IF inFlight THEN s.sent ELSE <<>>
        IN  ( /\ \/ inFlight /\ vsess'[w].pc \in {"closed", "crashed"}
                 \/ s.pc = "reading" /\ vsess'[w].pc = "closed"
              /\ b \in Range(before) )
            => ( /\ parts = ListRemove(before, b)
                 /\ \A m \in Range(parts) : Deliveries(sent, m) = 1
                 /\ Deliveries(sent, b) = 0
                 /\ \A i \in DOMAIN sent : sent[i].ws # w )
C8_DisconnectCascade == [][C8_CascadeStep]_vars

\* C9: while other members remain in the call, a user leaves the call's member
\* list by a leave or a drop exactly in the steps in which a user_left
\* broadcast naming that user starts: no departure without a broadcast to the
\* remaining members, no broadcast without a departure.
C9_ExactlyOneStep ==
    \A c \in Calls, u \in Users :
        ( /\ ~(endReq.pc = "sending" /\ endReq'.pc = "idle")
          /\ Members(c)' \ {u} # {} ) =>
            ( (u \in Members(c) /\ u \notin Members(c)')
              <=> \E w \in Socks : /\ vsess[w].pc = "reading"
                                   /\ vsess[w].call_id = c
                                   /\ vsess[w].user_id = u
                                   /\ vsess'[w].pc \in {"leaving", "closed"} )
C9_ExactlyOneUserLeft == [][C9_ExactlyOneStep]_vars

\* C10: when the user_joined broadcast of a join is over, its participants
\* list is the resulting member list, every other member that was connected
\* when it started (and still is) has been delivered it exactly once, nobody
\* twice, and the joiner's own connection has not.
C10_JoinedStep ==
    \A w \in Socks :
        LET s == vsess[w]
            inFlight == s.pc = "joining"
            s1 == vsess'[w]
            c == IF inFlight THEN s.call_id ELSE s1.call_id
            u == IF inFlight THEN s.user_id ELSE s1.user_id
            before == IF inFlight THEN s.before ELSE GetList(call_participants, c)
            parts == IF inFlight THEN s.msg.participants
                     ELSE GetList(call_participants', c)
            audience == IF inFlight THEN s.audience
                        ELSE Audience(active_connections', c, u)
            sent == IF inFlight THEN s.sent ELSE <<>>
        IN  ( \/ inFlight /\ s1.pc \in {"reading", "crashed"}
              \/ s.pc = "idle" /\ s1.pc = "reading" )
            => ( /\ parts = IF u \in Range(before) THEN before ELSE Append(before, u)
                 /\ \A m \in audience :
                       m \in Audience(active_connections, c, u)
                           => Deliveries(sent, m) = 1
                 /\ \A m \in Users : Deliveries(sent, m) <= 1
                 /\ \A i \in DOMAIN sent : sent[i].ws # w /\ sent[i].user # u )
C10_UserJoinedBroadcast == [][C10_JoinedStep]_vars

\* C11: unicast signaling: an offer, an answer or an ice_candidate that names
\* a target_user is delivered to at most one connection, the one registered
\* for the target in the call of the sender's connection, tagged with
\* from_user = sender; if the target has no connection registered in that call
\* (absent, or connected to another call only) nothing is delivered; the
\* sender's task is never ended by it and the tables do not change.
C11_UnicastStep ==
    \A w \in Socks, type \in {"offer", "answer", "ice_candidate"}, target \in Users :
        LET s == vsess[w]
            s1 == vsess'[w]
            c == s.call_id
            registered == c \in DOMAIN active_connections
                          /\ target \in DictKeys(active_connections[c])
        IN  /\ (s.pc = "reading" /\ vsess' # vsess
                   /\ HandleVideoMessage(w, type, target)) =>
                /\ s1.pc \in {"reading", "forwarding"}
                /\ \A v \in Socks \ {w} : vsess'[v] = vsess[v]
                /\ Len(s1.sent) <= 1
                /\ \A i \in DOMAIN s1.sent :
                       /\ registered
                       /\ s1.sent[i].user = target
                       /\ s1.sent[i].ws = DictGet(active_connections[c], target)
                       /\ vsess[s1.sent[i].ws].call_id = c
                       /\ vsess[s1.sent[i].ws].user_id = target
                       /\ s1.msg = [type |-> type, from_user |-> s.user_id]
                /\ registered
            /\ (s.pc = "forwarding" /\ s1 # s) =>
                /\ s1.pc = "reading"
                /\ s1.sent = <<>>
C11_UnicastSignaling == [][C11_UnicastStep]_vars

\* an offer has been delivered to its target's connection in the sender's call
C11_Witness ==
    \E w \in Socks :
        /\ vsess[w].pc = "forwarding"
        /\ vsess[w].msg.type = "offer"
        /\ Len(vsess[w].sent) = 1
        /\ vsess[w].sent[1].ws # w
        /\ vsess[w].sent[1].user # vsess[w].user_id

\* C12: broadcast signaling: when the broadcast of a mute, unmute or
\* video_toggle frame, or of an ice_candidate frame without target_user, is
\* over, every other member that was connected to the sender's call when it
\* started (and still is) has been delivered it exactly once, tagged with
\* the sender's user id; no delivery goes to the sender or to a connection of
\* another call.
C12_BroadcastStep ==
    \A w \in Socks :
        LET s == vsess[w]
            s1 == vsess'[w]
            c == s.call_id
            u == s.user_id
        IN  /\ (s1.pc = "signaling" /\ Len(s1.sent) > Len(s.sent)) =>
                LET to == s1.sent[Len(s1.sent)] IN
                /\ to.ws # w
                /\ to.user # u
                /\ vsess[to.ws].call_id = s1.call_id
                /\ (IF s1.msg.type = "ice_candidate"
                    THEN s1.msg.from_user ELSE s1.msg.user_id) = s1.user_id
            /\ (s.pc = "signaling" /\ s1.pc # "signaling") =>
                /\ \A m \in s.audience :
                       m \in Audience(active_connections, c, u)
                           => Deliveries(s.sent, m) = 1
                /\ \A m \in Users : Deliveries(s.sent, m) <= 1
C12_BroadcastSignaling == [][C12_BroadcastStep]_vars

\* C13: call end: when an end_video_call request whose call_ended broadcast
\* was in flight finishes, the call's member list is empty and every user it
\* removed from the call whose websocket is open had been delivered
\* call_ended.
C13_EndStep ==
    (endReq.pc = "sending" /\ endReq'.pc = "idle") =>
        LET c == endReq.call_id
            d == GetList(active_connections, c)
        IN  /\ Members(c)' = {}
            /\ \A i \in Live(d) :
                   (d[i].user \notin Members(c)' /\ WsOpen(d[i].ws))
                       => Deliveries(endReq.sent, d[i].user) >= 1
C13_CallEnd == [][C13_EndStep]_vars

\* The send_event_message calls that end in this step, each with its event,
\* its sender, the deliveries it made and the registered participants it
\* started with: the fan-out of a websocket that was in flight returns (or is
\* cut short by its except), or the fan-out of the frame handled in this step
\* ends before its first delivery.
FanEnds ==
    {[event_id |-> csess[w].event_id, sender_id |-> csess[w].user_id,
      sent |-> csess[w].sent, audience |-> csess[w].audience] :
        w \in {v \in ChatSocks : csess[v].pc = "fanout" /\ csess'[v].pc = "reading"}}
    \cup
    IF /\ lastCmd'.outcome = "stored"
       /\ Truthy(lastCmd'.stored.event_id)
       /\ \A w \in ChatSocks : csess'[w].pc = "fanout" => csess[w].pc = "fanout"
    THEN {[event_id |-> lastCmd'.stored.event_id,
           sender_id |-> lastCmd'.stored.sender_id,
           sent |-> <<>>,
           audience |-> FanAudience(lastCmd'.stored.event_id,
                                    lastCmd'.stored.sender_id)]}
    ELSE {}

\* u is registered and its registered websocket is open
Connected(u) == u \in DOMAIN user_connections /\ ChatOpen(user_connections[u])

\* C14: an end-call request by a user who is not the call's creator, or for
\* a call id without a call record, is rejected with 403 / 404 and has no
\* effect on the relay: no call_ended broadcast starts, nothing is delivered
\* and the three tables and the websocket tasks are unchanged.
C14_RejectedStep ==
    \A c \in Calls, u \in Users :
        LET known == c \in DOMAIN VideoCallRecords
            creator == known /\ VideoCallRecords[c].creator_id = u
        IN  ( /\ endReq.pc = "idle"
              /\ endReq' # endReq
              /\ endReq'.call_id = c
              /\ endReq'.ended_by = u
              /\ ~creator )
            => ( /\ endReq'.pc = "idle"
                 /\ endReq'.status_code = IF known THEN 403 ELSE 404
                 /\ endReq'.sent = <<>>
                 /\ vsess' = vsess
                 /\ Tables' = Tables )
C14_EndRejected == [][C14_RejectedStep]_vars

\* a member of call1 that is not its creator has been refused to end it
C14_Witness ==
    /\ endReq.pc = "idle"
    /\ endReq.status_code = 403
    /\ endReq.call_id = "call1"
    /\ endReq.ended_by \in Members("call1")
    /\ \E w \in Socks : vsess[w].pc = "reading" /\ vsess[w].call_id = "call1"

\* C15: group fan-out: when the fan-out of a stored event message ends, each
\* participant of the event other than the sender that was registered when it
\* started and is connected has been delivered the message exactly once,
\* nobody twice, and nobody who is the sender or not a participant.
C15_FanOutStep ==
    \A f \in FanEnds :
        /\ \A u \in Users : Deliveries(f.sent, u) <= 1
        /\ \A i \in DOMAIN f.sent :
              /\ f.sent[i].user \in Range(GetList(EventParticipants, f.event_id))
              /\ f.sent[i].user # f.sender_id
        /\ \A u \in f.audience : Connected(u) => Deliveries(f.sent, u) = 1
C15_FanOutCorrect == [][C15_FanOutStep]_vars

\* C16: the sends of a fan-out are independent: when a fan-out ends after a
\* send_text to one participant failed, every other participant that was
\* registered when it started and is connected has been delivered the
\* message.
C16_IndependentStep ==
    (\E i \in DOMAIN lastSends' : lastSends'[i].log = "error")
        => \A f \in FanEnds : \A u \in f.audience :
              Connected(u) => Deliveries(f.sent, u) >= 1
C16_IndependentSends == [][C16_IndependentStep]_vars

\* C17: direct message: a stored send_message of u1 with recipient u2 (and no
\* event) is delivered exactly once, on u2's registered websocket and on no
\* other, when u2 is registered; when u2 is not, nothing is delivered and the
\* sender's handler goes on.
C17_DirectStep ==
    LET row == lastCmd'.stored
        u2 == row.recipient_id
    IN  ( /\ lastCmd'.outcome = "stored"
          /\ ~Truthy(row.event_id)
          /\ u2 # row.sender_id )
        => /\ \E w \in ChatSocks :
                 csess[w].pc = "reading" /\ csess[w].user_id = row.sender_id
           /\ Len(lastSends') = 1
           /\ lastSends'[1].to = u2
           /\ IF u2 \in DOMAIN user_connections
              THEN lastSends'[1].ws = user_connections[u2]
              ELSE /\ lastSends'[1].ws = 0
                   /\ UNCHANGED <<chat_connections, user_connections, csess>>
C17_DirectMessage == [][C17_DirectStep]_vars

\* C18: fault isolation: a step in which a send to a registered recipient
\* fails (send_text raised) closes no handler and changes no registry entry.
C18_IsolationStep ==
    ( \E i \in DOMAIN lastSends' :
          /\ lastSends'[i].ws = 0
          /\ \/ lastSends'[i].kind = "direct" /\ lastSends'[i].log = ""
             \/ lastSends'[i].kind = "event" /\ lastSends'[i].log = "error" )
    => /\ \A w \in ChatSocks : ChatOpen(w) => ChatOpen(w)'
       /\ UNCHANGED <<chat_connections, user_connections>>
C18_FaultIsolation == [][C18_IsolationStep]_vars

\* a target field that names nothing: missing or null, empty, or "undefined"
NoTarget(x) == x \in {None, "", "undefined"}

\* C19: a send_message frame with neither an event target nor a recipient is
\* rejected: no row is stored, nothing is sent, and the registry and every
\* handler (the sender's too) are as before.
C19_RejectedStep ==
    ( /\ lastCmd'.outcome # "none"
      /\ NoTarget(lastCmd'.event_id)
      /\ NoTarget(lastCmd'.recipient_id) )
    => /\ lastCmd'.outcome = "rejected"
       /\ lastCmd'.stored = NoRecord
       /\ lastSends' = <<>>
       /\ UNCHANGED <<chat_connections, user_connections, csess, unreg>>
C20_ExactlyOneTarget ==
    lastCmd.outcome = "stored"
        => ~(~NoTarget(lastCmd.event_id) /\ ~NoTarget(lastCmd.recipient_id))

\* C21: one bad frame never kills a chat session: a frame that is not JSON,
\* or that is JSON but not an object, is answered with an invalid-frame
\* notice on the originating connection only; the handler stays in
\* receive_text and the user stays registered.
C21_BadFrameStep ==
    \A w \in ChatSocks :
        (ChatInvalidJson(w) \/ ChatNonObjectFrame(w)) =>
            /\ csess'[w].pc = "reading"
            /\ Registry' = Registry
            /\ Len(lastSends') = 1
            /\ lastSends'[1].ws = w
C21_BadFrameSurvived == [][C21_BadFrameStep]_vars

\* C22: a malformed signaling envelope (not JSON, JSON that is not an object,
\* unknown type, offer / answer without target_user) is dropped: nothing is
\* delivered, the call tables do not change and the sender's task stays in
\* receive_text.
C22_DroppedStep ==
    \A w \in Socks :
        ( \/ VideoIgnoredFrame(w)
          \/ VideoNonObjectFrame(w)
          \/ \E type \in {"offer", "answer"} : HandleVideoMessage(w, type, NoUser) )
        => ( /\ vsess'[w].pc = "reading"
             /\ vsess' = vsess
             /\ Tables' = Tables )
C22_MalformedDropped == [][C22_DroppedStep]_vars

\* C23: a stalled receiver does not delay the others: while a call broadcast
\* is in flight, every recipient it had to reach that stays connected and is
\* not the stalled one is eventually sent the message (or the broadcast is
\* over).
C23_StalledReceiver ==
    \A w \in Socks, m \in Users :
        ( /\ vsess[w].pc = "joining"
          /\ m \in vsess[w].audience )
        ~> ( \/ vsess[w].pc # "joining"
             \/ Deliveries(vsess[w].sent, m) >= 1
             \/ m \notin Audience(active_connections, vsess[w].call_id,
                                   vsess[w].user_id) )

\* C24: a call broadcast works on a snapshot of the membership: a join or
\* disconnect that interleaves with its sends does not make it fail, it
\* delivers to no user outside the connections the call had when it started,
\* and to every one of them that is still connected.
C24_SnapshotStep ==
    \A w \in Socks :
        LET s == vsess[w]
            s1 == vsess'[w]
        IN  (s.pc \in {"joining", "leaving"} /\ s1.pc # s.pc) =>
                /\ s1.pc # "crashed"
                /\ \A i \in DOMAIN s.sent : s.sent[i].user \in s.audience
                /\ \A m \in s.audience :
                       m \in Audience(active_connections, s.call_id, NoUser)
                           => Deliveries(s.sent, m) >= 1
C24_BroadcastSnapshot == [][C24_SnapshotStep]_vars

\* C25: cleanup is idempotent: in every reachable state, for every call id
\* and user id (known or not), applying disconnect twice leaves the three
\* tables as one application leaves them; likewise the chat disconnect for
\* every websocket and user id.
C25_IdempotentCleanup ==
    /\ \A c \in Calls \cup {"unknown"}, u \in Users \cup {"nobody"} :
           LET t == VDisconnect(Tables, c, u)
           IN  VDisconnect(t, c, u) = t
    /\ \A w \in ChatSocks \cup {0}, u \in Users \cup {"nobody"} :
           LET t == CDisconnect(Registry, w, u)
           IN  CDisconnect(t, w, u) = t

\* a disconnect has been applied in each relay and another one would still
\* remove an entry
C25_Witness ==
    /\ \E w \in Socks : vsess[w].pc \in {"leaving", "closed"}
    /\ \E c \in Calls, u \in Users : VDisconnect(Tables, c, u) # Tables
    /\ \E w \in ChatSocks : csess[w].pc = "closed"
    /\ \E w \in ChatSocks, u \in Users : CDisconnect(Registry, w, u) # Registry

\* C26: no dangling empty call entries: in every reachable state no call id
\* is a key of call_participants with an empty list, or of
\* active_connections with an empty dict.
C26_NoEmptyCallEntries ==
    /\ \A c \in DOMAIN call_participants : call_participants[c] # <<>>
    /\ \A c \in DOMAIN active_connections : DictKeys(active_connections[c]) # {}

\* C27: per-connection ordering: the direct messages one sender connection
\* sent to one recipient connection have been delivered there in the order
\* the sender's client wrote them.
C27_PerConnectionOrder ==
    \A w \in ChatSocks :
        LET rec == csess[w].received IN
        \A i, j \in DOMAIN rec :
            (i < j /\ rec[i].from = rec[j].from) => rec[i].n < rec[j].n

\* two messages of one sender connection have been delivered on another
\* connection, which also holds a message of its own in between or around
C27_Witness ==
    \E w \in ChatSocks :
        LET rec == csess[w].received IN
        /\ Len(rec) >= 3
        /\ \E i, j \in DOMAIN rec :
               i < j /\ rec[i].from = rec[j].from /\ rec[i].from # w

\* C28: in every reachable state and for every call id, the users of
\* call_participants are exactly the keys of active_connections and none is
\* listed twice; a join of a user that is already in the list leaves the list
\* as it was.
C28_ListMatchesDict ==
    /\ DOMAIN call_participants = DOMAIN active_connections
    /\ \A c \in DOMAIN call_participants :
           /\ Range(call_participants[c]) = DictKeys(active_connections[c])
           /\ Cardinality(Range(call_participants[c])) = Len(call_participants[c])
C28_RejoinStep ==
    \A w \in Socks :
        (vsess[w].pc = "idle" /\ vsess'[w].pc # "idle") =>
            LET c == vsess'[w].call_id
                u == vsess'[w].user_id
            IN  u \in Members(c) => call_participants'[c] = call_participants[c]
C28_MembersMatchConnections == []C28_ListMatchesDict /\ [][C28_RejoinStep]_vars

\* a user has joined a call twice and is listed once
C28_Witness ==
    \E v, w \in Socks :
        /\ v # w
        /\ vsess[v].pc = "reading" /\ vsess[w].pc = "reading"
        /\ vsess[v].call_id = vsess[w].call_id
        /\ vsess[v].user_id = vsess[w].user_id
        /\ GetList(call_participants, vsess[v].call_id) = <<vsess[v].user_id>>

\* C29: leaving or ending call A changes only call A: an HTTP leave of A, a
\* disconnect from A or the end of A leaves the member list and the
\* connections of every other call B unchanged, and user_calls[u] unchanged
\* for every user u whose recorded call is B; an HTTP leave of A by a user
\* whose recorded call is not A changes no table.
C29_OnlyCall(A) ==
    \A B \in Calls \ {A} :
        /\ GetList(call_participants', B) = GetList(call_participants, B)
        /\ GetList(active_connections', B) = GetList(active_connections, B)
        /\ \A u \in DOMAIN user_calls :
               user_calls[u] = B => (u \in DOMAIN user_calls' /\ user_calls'[u] = B)
C29_FrameStep ==
    \A A \in Calls :
        /\ ( \/ \E u \in Users : LeaveVideoCall(A, u)
             \/ \E w \in Socks : vsess[w].call_id = A /\ VideoClientDrop(w)
             \/ \E u \in Users : EndVideoCall(A, u)
             \/ endReq.call_id = A /\ EndResume )
           => C29_OnlyCall(A)
        /\ \A u \in Users :
               ( /\ LeaveVideoCall(A, u)
                 /\ (u \notin DOMAIN user_calls \/ user_calls[u] # A) )
               => Tables' = Tables
C29_OtherCallsUntouched == [][C29_FrameStep]_vars

\* C30: only current members of a call can signal into it: a frame sent on a
\* websocket whose user has been removed from the call's member list (HTTP
\* leave or call end) and is not in it is delivered to nobody.
C30_LeftStep ==
    \A w \in Socks :
        LET s == vsess[w]
            s1 == vsess'[w]
        IN  ( /\ s.pc \in {"reading", "signaling"}
              /\ s.left
              /\ s.user_id \notin Members(s.call_id)
              /\ s1.pc \in {"forwarding", "signaling"} )
            => Len(s1.sent) <= Len(s.sent)
C30_OnlyMembersSignal == [][C30_LeftStep]_vars

====
